---- MODULE Spec2Model ----
(***************************************************************************)
(* Casa-praia back office (src/app.py): the payment ledger rebuilt from    *)
(* the booking form (save_payments_from_form, booking_add_payment,         *)
(* payment_toggle_paid) and the contract text renderer                     *)
(* (render_contract_text over the operator-edited template).               *)
(*                                                                         *)
(* Text is a sequence of strings.  Form fields are sequences of one-char   *)
(* strings, so that strip, replace and the float/int/date parsers are      *)
(* computed character by character as Python computes them.  Money is an   *)
(* integer number of cents (the inputs carry at most two decimals); a date *)
(* is the integer yyyymmdd, which orders as dates order.                   *)
(***************************************************************************)
EXTENDS Integers, Sequences, FiniteSets, TLC

VARIABLES
    payments,           \* rows of table Payment (committed)
    nextId,             \* next surrogate key of table Payment
    request,            \* the request handled last: the operation, its booking and,
                        \* for a rebuild, the payment fields of request.form
    flash,              \* category flashed by the handler that ran last
    lastBuilt,          \* history: per booking, the form and the result of its last rebuild
    contract_template,  \* Setting "contract_template"
    booking,            \* the Booking row a contract is rendered for
    rendered,           \* outcome of the last render_contract_text call
    signatures,         \* image files present in the signatures directory
    pdf,                \* the canvas of the save_contract_pdf call under way
    contracts,          \* contract files written, per booking
    session             \* per concurrent edit_booking request, its db.session

vars ==
    <<payments, nextId, request, flash, lastBuilt, contract_template, booking, rendered,
      signatures, pdf, contracts, session>>

ledgerVars == <<payments, nextId, request, flash, lastBuilt>>
renderVars == <<contract_template, booking, rendered>>
pdfVars == <<signatures, pdf, contracts>>
otherVars == <<signatures, pdf, contracts, session>>

(***************************************************************************)
(* Bounds of the model.                                                    *)
(***************************************************************************)
MaxInst == 2        \* installment indices a form carries
MaxId == 4          \* surrogate keys handed out in one behaviour
MaxTplLen == 4      \* tokens of an operator-typed template
MaxClauses == 51    \* one-line paragraphs of the longest contract drawn
MaxCompLen == 4     \* characters of a guest's companions text

(***************************************************************************)
(* Python string helpers.                                                  *)
(***************************************************************************)
None == <<>>                     \* request.form.get(k) of an absent key
Some(s) == <<s>>                 \* request.form.get(k) of a present key

\* (x or "")
OrEmpty(o) == IF Len(o) = 0 THEN <<>> ELSE o[1]

IsSpace(c) == c \in {" ", "\t", "\n", "\r"}

RECURSIVE LStrip(_)
LStrip(s) == IF Len(s) > 0 /\ IsSpace(Head(s)) THEN LStrip(Tail(s)) ELSE s

RECURSIVE RStrip(_)
RStrip(s) ==
    IF Len(s) > 0 /\ IsSpace(s[Len(s)]) THEN RStrip(SubSeq(s, 1, Len(s) - 1)) ELSE s

\* str.strip()
Strip(s) == RStrip(LStrip(s))

\* str.replace(",", ".")
CommaToDot(s) == [i \in DOMAIN s |-> IF s[i] = "," THEN "." ELSE s[i]]

DigitChars == <<"0", "1", "2", "3", "4", "5", "6", "7", "8", "9">>

IsDigit(c) == \E i \in DOMAIN DigitChars : DigitChars[i] = c

DigitVal(c) == (CHOOSE i \in DOMAIN DigitChars : DigitChars[i] = c) - 1

AllDigits(s) == \A i \in DOMAIN s : IsDigit(s[i])

RECURSIVE DigitsVal(_)
DigitsVal(s) ==
    IF Len(s) = 0 THEN 0
    ELSE 10 * DigitsVal(SubSeq(s, 1, Len(s) - 1)) + DigitVal(s[Len(s)])

HasSign(s) == Len(s) > 0 /\ Head(s) \in {"+", "-"}

Unsigned(s) == IF HasSign(s) THEN Tail(s) ELSE s

SignOf(s) == IF Len(s) > 0 /\ Head(s) = "-" THEN -1 ELSE 1

\* int(s): surrounding blanks, an optional sign, decimal digits.
\* ok = FALSE stands for ValueError.
ParseInt(s) ==
    LET t == Strip(s)
        u == Unsigned(t)
    IN  IF Len(u) > 0 /\ AllDigits(u)
        THEN [ok |-> TRUE, val |-> SignOf(t) * DigitsVal(u)]
        ELSE [ok |-> FALSE, val |-> 0]

DotPositions(s) == {i \in DOMAIN s : s[i] = "."}

\* two decimals of a fraction, as cents
FracCents(f) ==
    IF Len(f) = 0 THEN 0
    ELSE IF Len(f) = 1 THEN 10 * DigitVal(f[1])
    ELSE 10 * DigitVal(f[1]) + DigitVal(f[2])

\* float(s) for the decimal notation: surrounding blanks, an optional sign,
\* digits with at most one point and at least one digit.  The value is in
\* cents.  ok = FALSE stands for ValueError.
ParseFloat(s) ==
    LET t == Strip(s)
        u == Unsigned(t)
        dots == DotPositions(u)
        d == IF dots = {} THEN Len(u) + 1 ELSE CHOOSE i \in dots : TRUE
        ip == SubSeq(u, 1, d - 1)
        fp == SubSeq(u, d + 1, Len(u))
    IN  IF /\ Cardinality(dots) <= 1
           /\ AllDigits(ip)
           /\ AllDigits(fp)
           /\ Len(ip) + Len(fp) > 0
        THEN [ok |-> TRUE, val |-> SignOf(t) * (100 * DigitsVal(ip) + FracCents(fp))]
        ELSE [ok |-> FALSE, val |-> 0]

DashPositions(s) == {i \in DOMAIN s : s[i] = "-"}

IsLeap(y) == (y % 4 = 0 /\ y % 100 # 0) \/ y % 400 = 0

DaysInMonth(y, m) ==
    IF m = 2 THEN (IF IsLeap(y) THEN 29 ELSE 28)
    ELSE IF m \in {4, 6, 9, 11} THEN 30 ELSE 31

\* the %m directive: 1[0-2] | 0[1-9] | [1-9]
MonthField(s) == Len(s) \in {1, 2} /\ AllDigits(s) /\ DigitsVal(s) \in 1..12

\* the %d directive: 3[01] | [12]\d | 0[1-9] | [1-9] | " "[1-9]
DayField(s) ==
    \/ Len(s) \in {1, 2} /\ AllDigits(s) /\ DigitsVal(s) \in 1..31
    \/ Len(s) = 2 /\ s[1] = " " /\ IsDigit(s[2]) /\ DigitVal(s[2]) \in 1..9

DayVal(s) == IF s[1] = " " THEN DigitVal(s[2]) ELSE DigitsVal(s)

\* datetime.strptime(s, "%Y-%m-%d").date(), as yyyymmdd.
\* ok = FALSE stands for ValueError.
ParseDate(s) ==
    LET dashes == DashPositions(s)
        a == CHOOSE i \in dashes : \A j \in dashes : i <= j
        b == CHOOSE i \in dashes : \A j \in dashes : i >= j
        ys == SubSeq(s, 1, a - 1)
        ms == SubSeq(s, a + 1, b - 1)
        ds == SubSeq(s, b + 1, Len(s))
    IN  IF /\ Cardinality(dashes) = 2
           /\ Len(ys) = 4 /\ AllDigits(ys) /\ DigitsVal(ys) >= 1
           /\ MonthField(ms)
           /\ DayField(ds)
           /\ DayVal(ds) <= DaysInMonth(DigitsVal(ys), DigitsVal(ms))
        THEN [ok |-> TRUE,
              val |-> 10000 * DigitsVal(ys) + 100 * DigitsVal(ms) + DayVal(ds)]
        ELSE [ok |-> FALSE, val |-> 0]

(***************************************************************************)
(* Table Payment and the three operations on it.                           *)
(***************************************************************************)
NullDate == 0       \* paid_date IS NULL

DepositNote == <<"Sinal / depósito inicial">>

LedgerOf(b) == {p \in payments : p.booking_id = b}

\* Payment(...) as inserted: status defaults to "pendente", paid_date to NULL
Payment(b, due, amount, status, paid, note) ==
    [booking_id |-> b, due_date |-> due, amount |-> amount,
     status |-> status, paid_date |-> paid, note |-> note]

\* request.form.get(f"payment_due_{i}") and its siblings
FieldAt(fields, i) == IF i \in DOMAIN fields THEN fields[i] ELSE None

\* mutant of DepAmount: the decimal comma is not accepted
DepAmountNoComma(form) ==
    LET str == Strip(OrEmpty(form.deposit_amount))
        r == ParseFloat(str)
    IN  IF Len(str) > 0 /\ r.ok THEN r.val ELSE 0

\* the deposit block: float(...) if dep_amount_str else 0; ValueError gives 0
DepAmount(form) ==
    LET str == Strip(CommaToDot(OrEmpty(form.deposit_amount)))
        r == ParseFloat(str)
    IN  IF Len(str) > 0 /\ r.ok THEN r.val ELSE 0

\* strptime(...).date() if dep_date_str else None; ValueError gives None
DepDate(form) ==
    LET str == Strip(OrEmpty(form.deposit_date))
        r == ParseDate(str)
    IN  IF Len(str) > 0 /\ r.ok THEN r.val ELSE NullDate

\* mutant of DepositRows: the deposit is left to the column defaults
DepositRowsPending(b, form) ==
    IF DepAmount(form) # 0 /\ DepDate(form) # NullDate
    THEN <<Payment(b, DepDate(form), DepAmount(form), "pendente", NullDate, DepositNote)>>
    ELSE <<>>

\* if dep_amount and dep_date: one row, already paid
DepositRows(b, form) ==
    IF DepAmount(form) # 0 /\ DepDate(form) # NullDate
    THEN <<Payment(b, DepDate(form), DepAmount(form), "pago", DepDate(form), DepositNote)>>
    ELSE <<>>

\* n = int(count_str); ValueError gives 0
InstallmentCount(form) ==
    LET r == ParseInt(Strip(OrEmpty(form.installments_count)))
    IN  IF r.ok THEN r.val ELSE 0

\* one pass of the loop body for index i: no row (continue) or one pending row
InstallmentRow(b, form, i) ==
    LET due_str == Strip(OrEmpty(FieldAt(form.payment_due, i)))
        amount_str == Strip(CommaToDot(OrEmpty(FieldAt(form.payment_amount, i))))
        note == Strip(OrEmpty(FieldAt(form.payment_note, i)))
        d == ParseDate(due_str)
        a == ParseFloat(amount_str)
    IN  IF Len(due_str) = 0 \/ Len(amount_str) = 0 THEN <<>>
        ELSE IF ~d.ok \/ ~a.ok THEN <<>>
        ELSE <<Payment(b, d.val, a.val, "pendente", NullDate, note)>>

\* mutant of InstallmentRows: the first wrong index ends the loop (break)
RECURSIVE InstallmentRowsBreak(_, _, _, _)
InstallmentRowsBreak(b, form, i, n) ==
    IF i > n \/ Len(InstallmentRow(b, form, i)) = 0 THEN <<>>
    ELSE InstallmentRow(b, form, i) \o InstallmentRowsBreak(b, form, i + 1, n)

\* for i in range(1, n + 1), from index i on
RECURSIVE InstallmentRows(_, _, _, _)
InstallmentRows(b, form, i, n) ==
    IF i > n THEN <<>>
    ELSE InstallmentRow(b, form, i) \o InstallmentRows(b, form, i + 1, n)

\* the rows save_payments_from_form adds to the session, in order
NewPayments(b, form) ==
    LET n == InstallmentCount(form)
    IN  IF n <= 0 THEN DepositRows(b, form)
        ELSE DepositRows(b, form) \o InstallmentRows(b, form, 1, n)

\* mutants of RemoveOld: only the pending rows go; nothing goes (a merge);
\* the rows of every booking go
RemoveOldPending(b) == {p \in payments : p.booking_id # b \/ p.status = "pago"}
RemoveOldNothing(b) == payments
RemoveOldEveryBooking(b) == {p \in payments : FALSE}

\* for p in booking.payments.all(): db.session.delete(p)
RemoveOld(b) == {p \in payments : p.booking_id # b}

\* the INSERTs of a commit: each row gets the next surrogate key
Inserted(rows) ==
    {[id |-> nextId + i - 1] @@ rows[i] : i \in DOMAIN rows}

\* save_payments_from_form(booking) and the caller's db.session.commit()
save_payments_from_form(b, form, rows) ==
        /\ payments' = RemoveOld(b) \cup Inserted(rows)
        /\ nextId' = nextId + Len(rows)
        /\ request' = [op |-> "save", booking_id |-> b, form |-> form]
        /\ flash' = "none"

\* mutant of AddedPayment: the row goes to booking 1 whatever the URL says
AddedPaymentFirstBooking(b, form) ==
    LET due_str == Strip(OrEmpty(form.due_date))
        amount_str == Strip(CommaToDot(OrEmpty(form.amount)))
        note == Strip(OrEmpty(form.note))
        d == ParseDate(due_str)
        a == ParseFloat(amount_str)
    IN  IF Len(due_str) = 0 \/ Len(amount_str) = 0 THEN <<>>
        ELSE IF ~d.ok \/ ~a.ok THEN <<>>
        ELSE <<Payment(1, d.val, a.val, "pendente", NullDate, note)>>

\* the row booking_add_payment adds, none when it flashes an error
AddedPayment(b, form) ==
    LET due_str == Strip(OrEmpty(form.due_date))
        amount_str == Strip(CommaToDot(OrEmpty(form.amount)))
        note == Strip(OrEmpty(form.note))
        d == ParseDate(due_str)
        a == ParseFloat(amount_str)
    IN  IF Len(due_str) = 0 \/ Len(amount_str) = 0 THEN <<>>
        ELSE IF ~d.ok \/ ~a.ok THEN <<>>
        ELSE <<Payment(b, d.val, a.val, "pendente", NullDate, note)>>

\* POST /bookings/<id>/payments/new
booking_add_payment(b, form, rows) ==
    /\ payments' = payments \cup Inserted(rows)
    /\ nextId' = nextId + Len(rows)
    /\ request' = [op |-> "add", booking_id |-> b, form |-> <<>>]
    /\ flash' = IF Len(rows) > 0 THEN "success" ELSE "error"

\* mutant of Toggled: the paid date is left in place on the way back
ToggledKeepDate(p, today) ==
    IF p.status = "pago"
    THEN [p EXCEPT !.status = "pendente"]
    ELSE [p EXCEPT !.status = "pago", !.paid_date = today]

\* what payment_toggle_paid writes to the row it loaded
Toggled(p, today) ==
    IF p.status = "pago"
    THEN [p EXCEPT !.status = "pendente", !.paid_date = NullDate]
    ELSE [p EXCEPT !.status = "pago", !.paid_date = today]

\* POST /payments/<id>/toggle-paid; get_or_404 needs the row to exist
payment_toggle_paid(payment_id, today) ==
    /\ \E p \in payments : p.id = payment_id
    /\ LET p == CHOOSE q \in payments : q.id = payment_id
       IN  /\ payments' = (payments \ {p}) \cup {Toggled(p, today)}
           /\ request' = [op |-> "toggle", booking_id |-> p.booking_id, form |-> <<>>]
    /\ nextId' = nextId
    /\ flash' = "success"

(***************************************************************************)
(* Two edit_booking requests at once.  Each has a db.session of its own:   *)
(* list(booking.payments) reads the committed rows, session.delete and     *)
(* session.add stay pending in the session, and db.session.commit()        *)
(* flushes them (INSERT of the new rows, DELETE of the rows read, by       *)
(* primary key) in one transaction.  The requests leave the columns of     *)
(* Booking as stored, so that no UPDATE of the Booking row precedes the    *)
(* read.                                                                   *)
(***************************************************************************)
Sessions == {1, 2}

IdleSession == [pc |-> "idle", booking_id |-> 0, form |-> <<>>, olds |-> {}, rows |-> <<>>]

\* the rows left by the flush of a session that read olds
RemoveRead(olds) == {p \in payments : p.id \notin olds}

\* edit_booking up to the end of save_payments_from_form: nothing is flushed
edit_read(r, b, form, rows) ==
    /\ session[r].pc = "idle"
    /\ session' = [session EXCEPT ![r] =
            [pc |-> "pending", booking_id |-> b, form |-> form,
             olds |-> {p.id : p \in LedgerOf(b)}, rows |-> rows]]
    /\ UNCHANGED <<payments, nextId, request, flash, lastBuilt>>

\* db.session.commit() of edit_booking
edit_commit(r) ==
    /\ session[r].pc = "pending"
    /\ payments' = RemoveRead(session[r].olds) \cup Inserted(session[r].rows)
    /\ nextId' = nextId + Len(session[r].rows)
    /\ request' = [op |-> "save", booking_id |-> session[r].booking_id, form |-> session[r].form]
    /\ flash' = "none"
    /\ session' = [session EXCEPT ![r].pc = "done"]
    /\ UNCHANGED lastBuilt

(***************************************************************************)
(* The contract text: formatting helpers, payment_summary, str.format      *)
(* over the stored template, render_contract_text.                         *)
(*                                                                         *)
(* A template is a sequence of tokens: "{" and "}" are tokens of their     *)
(* own, a placeholder name is one token, and any other token is text       *)
(* without braces.                                                         *)
(***************************************************************************)
\* str(n) for n >= 0
RECURSIVE IntChars(_)
IntChars(n) ==
    IF n < 10 THEN <<DigitChars[n + 1]>>
    ELSE IntChars(n \div 10) \o <<DigitChars[(n % 10) + 1]>>

TwoDigits(n) == <<DigitChars[(n \div 10) + 1], DigitChars[(n % 10) + 1]>>

ThreeDigits(n) == <<DigitChars[(n \div 100) + 1]>> \o TwoDigits(n % 100)

FourDigits(n) == <<DigitChars[(n \div 1000) + 1]>> \o ThreeDigits(n % 1000)

\* the "," of the format spec: groups of three digits, comma between them
RECURSIVE Grouped(_)
Grouped(n) ==
    IF n < 1000 THEN IntChars(n)
    ELSE Grouped(n \div 1000) \o <<",">> \o ThreeDigits(n % 1000)

\* f"{v:,.2f}" of an amount in cents
Fixed2(c) ==
    LET a == IF c < 0 THEN -c ELSE c
    IN  (IF c < 0 THEN <<"-">> ELSE <<>>) \o Grouped(a \div 100) \o <<".">> \o TwoDigits(a % 100)

\* str.replace(a, b) for one-character a and b
ReplaceChar(s, a, b) == [i \in DOMAIN s |-> IF s[i] = a THEN b ELSE s[i]]

\* br_currency(v); v is <<>> for None, <<cents>> otherwise
br_currency(v) ==
    IF Len(v) = 0 THEN <<"-">>
    ELSE <<"R$ ">> \o ReplaceChar(ReplaceChar(ReplaceChar(Fixed2(v[1]), ",", "X"), ".", ","), "X", ".")

\* br_date(d): d.strftime("%d/%m/%Y")
br_date(d) ==
    TwoDigits(d % 100) \o <<"/">> \o TwoDigits((d \div 100) % 100) \o <<"/">>
        \o FourDigits(d \div 10000)

meses ==
    <<"janeiro", "fevereiro", "março", "abril", "maio", "junho",
      "julho", "agosto", "setembro", "outubro", "novembro", "dezembro">>

\* data_por_extenso(d)
data_por_extenso(d) ==
    IntChars(d % 100) \o <<" de ", meses[(d \div 100) % 100], " de ">> \o IntChars(d \div 10000)

\* sep.join(parts)
RECURSIVE Join(_, _)
Join(sep, parts) ==
    IF Len(parts) = 0 THEN <<>>
    ELSE IF Len(parts) = 1 THEN parts[1]
    ELSE parts[1] \o sep \o Join(sep, Tail(parts))

\* truth of a nullable number: None and 0 are false
Truthy(v) == Len(v) > 0 /\ v[1] # 0

\* payment_summary(b)
payment_summary(b) ==
    LET sinal == IF Truthy(b.deposit_amount)
                 THEN <<<<"Sinal de ">> \o br_currency(b.deposit_amount)>> ELSE <<>>
        parc == IF Truthy(b.installments_count) /\ Truthy(b.installment_value)
                THEN <<IntChars(b.installments_count[1]) \o <<" parcelas de ">>
                          \o br_currency(b.installment_value)>>
                ELSE <<>>
        parts == sinal \o parc
        text == IF Len(parts) > 0 THEN Join(<<" e ">>, parts) ELSE <<"-">>
    IN  IF Len(b.installments_due) > 0
        THEN text \o <<", com vencimentos em ">> \o b.installments_due
        ELSE text

\* str.replace("\r\n", "\n")
RECURSIVE CrLfToLf(_)
CrLfToLf(s) ==
    IF Len(s) = 0 THEN s
    ELSE IF Len(s) >= 2 /\ s[1] = "\r" /\ s[2] = "\n"
         THEN <<"\n">> \o CrLfToLf(SubSeq(s, 3, Len(s)))
         ELSE <<s[1]>> \o CrLfToLf(Tail(s))

\* str.split("\n"): the pieces between consecutive line feeds
SplitLines(s) ==
    LET nl == {i \in DOMAIN s : s[i] = "\n"}
        cut(k) == IF k = 0 THEN 0
                  ELSE IF k > Cardinality(nl) THEN Len(s) + 1
                  ELSE CHOOSE i \in nl : Cardinality({j \in nl : j < i}) = k - 1
    IN  [k \in 1..(Cardinality(nl) + 1) |-> SubSeq(s, cut(k - 1) + 1, cut(k) - 1)]

\* [x.strip() for x in lines if x.strip()]
RECURSIVE StrippedNonEmpty(_)
StrippedNonEmpty(lines) ==
    IF Len(lines) = 0 THEN <<>>
    ELSE (IF Len(Strip(lines[1])) > 0 THEN <<Strip(lines[1])>> ELSE <<>>)
            \o StrippedNonEmpty(Tail(lines))

\* mutant of acomp_line: a lone carriage return does not end a line
acomp_lineNoCr(companions) ==
    LET acomp == CrLfToLf(Strip(companions))
        names == StrippedNonEmpty(SplitLines(acomp))
    IN  IF Len(names) > 0 THEN Join(<<",", " ">>, names) ELSE <<"-">>

\* acomp_line of render_contract_text
acomp_line(companions) ==
    LET acomp == ReplaceChar(CrLfToLf(Strip(companions)), "\r", "\n")
        names == StrippedNonEmpty(SplitLines(acomp))
    IN  IF Len(names) > 0 THEN Join(<<",", " ">>, names) ELSE <<"-">>

LowerChars ==
    <<"a", "b", "c", "d", "e", "f", "g", "h", "i", "j", "k", "l", "m",
      "n", "o", "p", "q", "r", "s", "t", "u", "v", "w", "x", "y", "z">>
UpperChars ==
    <<"A", "B", "C", "D", "E", "F", "G", "H", "I", "J", "K", "L", "M",
      "N", "O", "P", "Q", "R", "S", "T", "U", "V", "W", "X", "Y", "Z">>

Upper(c) ==
    IF \E i \in DOMAIN LowerChars : LowerChars[i] = c
    THEN UpperChars[CHOOSE i \in DOMAIN LowerChars : LowerChars[i] = c] ELSE c
Lower(c) ==
    IF \E i \in DOMAIN UpperChars : UpperChars[i] = c
    THEN LowerChars[CHOOSE i \in DOMAIN UpperChars : UpperChars[i] = c] ELSE c

\* str.capitalize()
Capitalize(s) == [i \in DOMAIN s |-> IF i = 1 THEN Upper(s[i]) ELSE Lower(s[i])]

\* x or "-"
OrDash(s) == IF Len(s) = 0 THEN <<"-">> ELSE s

\* mutant of DueOrders: the rows in the order they were inserted
DueOrdersById(rows) ==
    {o \in [1..Cardinality(rows) -> rows] :
        /\ \A i, j \in DOMAIN o : i # j => o[i] # o[j]
        /\ \A i, j \in DOMAIN o : i < j => o[i].id <= o[j].id}

\* b.payments.order_by(Payment.due_date.asc()).all(): the orders the query
\* may return; rows of one due date come in any order
DueOrders(rows) ==
    {o \in [1..Cardinality(rows) -> rows] :
        /\ \A i, j \in DOMAIN o : i # j => o[i] # o[j]
        /\ \A i, j \in DOMAIN o : i < j => o[i].due_date <= o[j].due_date}

\* one line of the installment breakdown
ParcelaLine(idx, p) ==
    IntChars(idx) \o <<"ª parcela: ">> \o br_date(p.due_date) \o <<" - ">>
        \o br_currency(<<p.amount>>)

\* parcelas_text
parcelas_text(parcelas_list) ==
    Join(<<"\n">>, [i \in DOMAIN parcelas_list |-> ParcelaLine(i, parcelas_list[i])])

\* the keyword arguments of tpl.format(**fields)
FieldNames ==
    {"locador_nome", "nome", "cpf", "rg", "endereco", "acompanhantes", "imovel",
     "check_in", "check_out", "valor", "forma_pagamento", "pix_chave", "wifi_nome",
     "wifi_senha", "portaria_senha", "pagamento", "pagamento_info", "parcelas",
     "data_contrato", "data_contrato_extenso", "assinatura_locador",
     "assinatura_locatario"}

\* pay and pay != "-"
HasSummary(pay) == Len(pay) > 0 /\ pay # <<"-">>

\* fields = dict(...); the environment variables are unset
Fields(b, pay, parcelas_list, today) ==
    [name \in FieldNames |->
        CASE name = "locador_nome" -> <<"Divalcir Tambalo">>
          [] name = "nome" -> b.guest.name
          [] name = "cpf" -> OrDash(b.guest.cpf)
          [] name = "rg" -> OrDash(b.guest.rg)
          [] name = "endereco" -> OrDash(b.guest.address)
          [] name = "acompanhantes" -> acomp_line(b.guest.companions)
          [] name = "imovel" -> <<"Casa de Praia - Bertioga">>
          [] name = "check_in" -> br_date(b.check_in)
          [] name = "check_out" -> br_date(b.check_out)
          [] name = "valor" -> br_currency(b.price_total)
          [] name = "forma_pagamento" -> Capitalize(OrDash(b.payment_method))
          [] name = "pix_chave" -> <<"-">>
          [] name = "wifi_nome" -> <<"-">>
          [] name = "wifi_senha" -> <<"-">>
          [] name = "portaria_senha" -> <<"-">>
          [] name = "pagamento" ->
                IF HasSummary(pay) THEN <<"Pagamento: ">> \o pay \o <<".">> ELSE <<>>
          [] name = "pagamento_info" -> IF HasSummary(pay) THEN pay ELSE <<>>
          [] name = "parcelas" -> parcelas_text(parcelas_list)
          [] name = "data_contrato" -> br_date(today)
          [] name = "data_contrato_extenso" -> data_por_extenso(today)
          [] name = "assinatura_locador" -> <<"{", "assinatura_locador", "}">>
          [] name = "assinatura_locatario" -> <<"{", "assinatura_locatario", "}">>]

Returned(text) == [raised |-> "none", key |-> <<>>, text |-> text]
Raised(exc, key) == [raised |-> exc, key |-> key, text |-> <<>>]

Braces(t) == {i \in DOMAIN t : t[i] \in {"{", "}"}}

\* a field name that str.format takes as a positional index
IsIndex(name) == \A i \in DOMAIN name : IsDigit(name[i])

\* tpl.format(**fields), from token i on, with the text produced so far:
\* text up to the next brace is copied; "{{" and "}}" are literal braces; a
\* lone "}" or a "{" that is not closed before the next "{" is a ValueError;
\* an empty or numeric field name is an IndexError (no positional
\* arguments); an unknown name is a KeyError
RECURSIVE Format(_, _, _, _)
Format(t, fields, i, out) ==
    LET from == {j \in Braces(t) : j >= i}
        n == CHOOSE k \in from : \A m \in from : k <= m
        rest == {j \in Braces(t) : j > n}
        j == CHOOSE k \in rest : \A m \in rest : k <= m
        name == SubSeq(t, n + 1, j - 1)
        text == out \o SubSeq(t, i, n - 1)
    IN  IF from = {} THEN Returned(out \o SubSeq(t, i, Len(t)))
        ELSE IF n < Len(t) /\ t[n + 1] = t[n] THEN Format(t, fields, n + 2, text \o <<t[n]>>)
        ELSE IF t[n] = "}" \/ rest = {} \/ t[j] = "{" THEN Raised("ValueError", <<>>)
        ELSE IF IsIndex(name) THEN Raised("IndexError", <<>>)
        ELSE IF Len(name) = 1 /\ name[1] \in DOMAIN fields
             THEN Format(t, fields, j + 1, text \o fields[name[1]])
        ELSE Raised("KeyError", name)

\* sub in text
Contains(text, sub) ==
    \E i \in 1..(Len(text) - Len(sub) + 1) : SubSeq(text, i, i + Len(sub) - 1) = sub

\* the appended diagnostic; str(e) of a KeyError is the quoted key
Aviso(key) ==
    <<"\n", "\n", "[Aviso: Placeholder ausente no sistema: ", "{", "{", " ", "'">>
        \o key \o <<"'", " ", "}", "}", "]">>

\* mutant of NeedsPaymentParagraph: {pagamento_info} is not looked for
NeedsPaymentParagraphOnePlaceholder(tpl, pay) ==
    /\ ~Contains(tpl, <<"{", "pagamento", "}">>)
    /\ HasSummary(pay)

\* ("{pagamento}" not in tpl and "{pagamento_info}" not in tpl) and pay and pay != "-"
NeedsPaymentParagraph(tpl, pay) ==
    /\ ~Contains(tpl, <<"{", "pagamento", "}">>)
    /\ ~Contains(tpl, <<"{", "pagamento_info", "}">>)
    /\ HasSummary(pay)

\* render_contract_text(b), the query having returned parcelas_list
render_contract_text(tpl, b, parcelas_list, today) ==
    LET pay == payment_summary(b)
        r == Format(tpl, Fields(b, pay, parcelas_list, today), 1, <<>>)
        body == IF r.raised = "KeyError" THEN tpl \o Aviso(r.key) ELSE r.text
    IN  IF r.raised \notin {"none", "KeyError"} THEN r
        ELSE IF NeedsPaymentParagraph(tpl, pay)
             THEN Returned(body \o <<"\n", "\n", "Pagamento: ">> \o pay \o <<".">>)
             ELSE Returned(body)

\* the template seeded by seed_admin_and_defaults (the non-breaking hyphen of
\* "Wi-Fi" and the dash of IMOVEL_DESC are written as "-")
DefaultTemplate ==
    <<"CONTRATO DE LOCAÇÃO", "\n", "\n",
      "LOCADOR: ", "{", "locador_nome", "}", "\n",
      "LOCATÁRIO: ", "{", "nome", "}", " (CPF ", "{", "cpf", "}", ", RG ", "{", "rg", "}", ")", "\n",
      "Endereço do locatário: ", "{", "endereco", "}", "\n",
      "Acompanhantes: ", "{", "acompanhantes", "}", "\n", "\n",
      "Imóvel: ", "{", "imovel", "}", "\n",
      "Período: ", "{", "check_in", "}", " a ", "{", "check_out", "}", "\n",
      "Valor: ", "{", "valor", "}", "\n",
      "Forma de pagamento: ", "{", "forma_pagamento", "}", "\n",
      "Chave PIX: ", "{", "pix_chave", "}", "\n",
      "Wi-Fi: ", "{", "wifi_nome", "}", " / Senha: ", "{", "wifi_senha", "}", "\n",
      "Senha de portaria: ", "{", "portaria_senha", "}", "\n", "\n",
      "Assinaturas:", "\n",
      "{", "assinatura_locador", "}", "\n",
      "{", "assinatura_locatario", "}">>

\* POST /settings/contract-template
settings_contract_template(raw) ==
    LET tpl == Strip(raw)
    IN  /\ contract_template' = IF Len(tpl) = 0 THEN contract_template ELSE tpl
        /\ flash' = IF Len(tpl) = 0 THEN "error" ELSE "success"
        /\ request' = [op |-> "template", booking_id |-> 0, form |-> <<>>]
        /\ rendered' = <<>>
        /\ UNCHANGED <<payments, nextId, lastBuilt, booking, signatures, pdf, contracts, session>>

\* a request that renders the contract of the booking
contract_text(today) ==
    \E parcelas_list \in DueOrders(LedgerOf(booking.id)) :
        /\ rendered' = <<render_contract_text(contract_template, booking, parcelas_list, today)>>
        /\ request' = [op |-> "contract", booking_id |-> booking.id, form |-> <<>>]
        /\ UNCHANGED <<payments, nextId, lastBuilt, flash, contract_template, booking,
                       signatures, pdf, contracts, session>>

(***************************************************************************)
(* The contract PDF: save_contract_pdf, one step per paragraph.            *)
(*                                                                         *)
(* Lengths are in millimetres (reportlab's cm and the A4 height are whole  *)
(* numbers of them); the comparisons of the cursor with the thresholds     *)
(* come out as they do in floating point.  A drawn line is one string.     *)
(***************************************************************************)
PageH == 297            \* h of A4
FirstTop == PageH - 30  \* y = h - 3*cm
NextTop == PageH - 20   \* y = h - 2*cm after c.showPage() in a paragraph
Bottom == 20            \* if y < 2*cm
LineStep == 5           \* y -= 0.5*cm
ParaGap == 2            \* y -= 0.2*cm
SigNeeded == 30         \* needed = 3*cm
WrapWidth == 95         \* wrap(para, 95)

\* marker = "Regras do Condomínio"
RulesMarker == <<"Regras", " ", "do", " ", "Condomínio">>

SigLocador == <<"{", "assinatura_locador", "}">>
SigLocatario == <<"{", "assinatura_locatario", "}">>

\* full_text.split(marker, 1) with before.rstrip() and (marker + after).lstrip()
SplitRules(full_text) ==
    LET at == {i \in 1..(Len(full_text) - Len(RulesMarker) + 1) :
                  SubSeq(full_text, i, i + Len(RulesMarker) - 1) = RulesMarker}
        i == CHOOSE k \in at : \A m \in at : k <= m
    IN  IF at = {} THEN [contrato_text |-> full_text, regras_text |-> <<>>]
        ELSE [contrato_text |-> RStrip(SubSeq(full_text, 1, i - 1)),
              regras_text |-> LStrip(SubSeq(full_text, i, Len(full_text)))]

\* textwrap: the text cut into words and runs of white space, every white
\* space character replaced by a blank
RECURSIVE Chunks(_)
Chunks(s) ==
    IF Len(s) = 0 THEN <<>>
    ELSE LET rest == Chunks(Tail(s))
             ws == IsSpace(s[1])
             c == IF ws THEN " " ELSE s[1]
         IN  IF Len(rest) > 0 /\ rest[1].ws = ws
             THEN <<[s |-> c \o rest[1].s, ws |-> ws]>> \o Tail(rest)
             ELSE <<[s |-> c, ws |-> ws]>> \o rest

RECURSIVE Width(_)
Width(chunks) == IF Len(chunks) = 0 THEN 0 ELSE Len(chunks[1].s) + Width(Tail(chunks))

RECURSIVE Glued(_)
Glued(chunks) == IF Len(chunks) = 0 THEN "" ELSE chunks[1].s \o Glued(Tail(chunks))

\* TextWrapper._wrap_chunks: a line takes the chunks that fit in the width;
\* white space is dropped at the end of every line and at the start of every
\* line but the first.  (A word wider than the line is cut by textwrap; it is
\* taken whole here, and the texts drawn have none.)
RECURSIVE WrapChunks(_, _)
WrapChunks(chunks, lines) ==
    IF Len(chunks) = 0 THEN lines
    ELSE LET cs == IF chunks[1].ws /\ Len(lines) > 0 THEN Tail(chunks) ELSE chunks
             fit == {k \in 0..Len(cs) : Width(SubSeq(cs, 1, k)) <= WrapWidth}
             most == CHOOSE k \in fit : \A m \in fit : m <= k
             n == IF most = 0 /\ Len(cs) > 0 THEN 1 ELSE most
             cur == SubSeq(cs, 1, n)
             kept == IF n > 0 /\ cur[n].ws THEN SubSeq(cur, 1, n - 1) ELSE cur
         IN  WrapChunks(SubSeq(cs, n + 1, Len(cs)),
                        IF Len(kept) > 0 THEN Append(lines, Glued(kept)) ELSE lines)

\* wrap(para, 95) or [""]
wrap(para) ==
    LET lines == WrapChunks(Chunks(para), <<>>)
    IN  IF Len(lines) = 0 THEN <<"">> ELSE lines

\* the canvas before anything is drawn
NoPdf ==
    [phase |-> "idle", booking_id |-> 0, full_text |-> <<>>, todo |-> <<>>,
     regras_text |-> <<>>, page |-> 0, y |-> 0, drawn |-> <<>>]

Drawn(kind, cv, y, text) == [kind |-> kind, page |-> cv.page, y |-> y, text |-> text]

\* c.showPage(); y = top
ShowPage(cv, top) == [cv EXCEPT !.page = @ + 1, !.y = top]

\* one wrapped line: page break below the bottom margin, drawString, step down
DrawLine(cv, ln) ==
    LET c1 == IF cv.y < Bottom THEN ShowPage(cv, NextTop) ELSE cv
    IN  [c1 EXCEPT !.drawn = Append(@, Drawn("text", c1, c1.y, ln)), !.y = @ - LineStep]

RECURSIVE DrawLines(_, _)
DrawLines(cv, lines) ==
    IF Len(lines) = 0 THEN cv ELSE DrawLines(DrawLine(cv, lines[1]), Tail(lines))

\* parágrafo normal
DrawParagraph(cv, para) ==
    LET c1 == DrawLines(cv, wrap(para))
    IN  [c1 EXCEPT !.y = @ - ParaGap]

\* img_path of a marker
ImageOf(stripped, id) == IF stripped = SigLocador THEN <<"locador", 0>> ELSE <<"tenant", id>>

\* marcadores de assinatura inline: page break if less than 3 cm above the
\* bottom margin is left, then the image (and the caption of the tenant's)
\* if the file exists
DrawSignature(cv, stripped, id, images) ==
    LET c1 == IF cv.y < SigNeeded + Bottom THEN ShowPage(cv, FirstTop) ELSE cv
        img == Drawn("image", c1, c1.y, "")
        cap == Drawn("caption", c1, c1.y - 4, "Assinado digitalmente em ")
    IN  IF ImageOf(stripped, id) \notin images THEN c1
        ELSE IF stripped = SigLocatario
             THEN [c1 EXCEPT !.drawn = @ \o <<img, cap>>, !.y = @ - 12]
             ELSE [c1 EXCEPT !.drawn = Append(@, img), !.y = @ - 10]

\* save_contract_pdf(b) up to the first paragraph: the text is rendered and
\* split, the title drawn; a render that raises leaves no canvas
pdf_begin(today) ==
    \E parcelas_list \in DueOrders(LedgerOf(booking.id)) :
        LET r == render_contract_text(contract_template, booking, parcelas_list, today)
            parts == SplitRules(r.text)
            cv == [phase |-> "main", booking_id |-> booking.id, full_text |-> r.text,
                   todo |-> SplitLines(parts.contrato_text),
                   regras_text |-> parts.regras_text, page |-> 1, y |-> FirstTop,
                   drawn |-> <<[kind |-> "title", page |-> 1, y |-> PageH - 20,
                                text |-> "Contrato de Locação"]>>]
        IN  /\ pdf.phase \in {"idle", "saved"}
            /\ rendered' = <<r>>
            /\ pdf' = IF r.raised = "none" THEN cv ELSE NoPdf
            /\ request' = [op |-> "pdf", booking_id |-> booking.id, form |-> <<>>]
            /\ UNCHANGED <<payments, nextId, lastBuilt, flash, contract_template, booking,
                           signatures, contracts, session>>

\* one turn of "for para in contrato_text.split('\n')"
pdf_main_paragraph ==
    /\ pdf.phase = "main"
    /\ Len(pdf.todo) > 0
    /\ LET para == Head(pdf.todo)
           stripped == Strip(para)
           cv == IF stripped \in {SigLocador, SigLocatario}
                 THEN DrawSignature(pdf, stripped, pdf.booking_id, signatures)
                 ELSE DrawParagraph(pdf, para)
       IN  pdf' = [cv EXCEPT !.todo = Tail(pdf.todo)]
    /\ UNCHANGED <<payments, nextId, lastBuilt, flash, request, contract_template, booking,
                   rendered, signatures, contracts, session>>

\* "if regras_text:" the rules start on a page of their own
pdf_begin_rules ==
    /\ pdf.phase = "main"
    /\ Len(pdf.todo) = 0
    /\ Len(pdf.regras_text) > 0
    /\ pdf' = [ShowPage(pdf, FirstTop) EXCEPT !.phase = "rules",
                                              !.todo = SplitLines(pdf.regras_text)]
    /\ UNCHANGED <<payments, nextId, lastBuilt, flash, request, contract_template, booking,
                   rendered, signatures, contracts, session>>

\* one turn of "for para in regras_text.split('\n')"
pdf_rules_paragraph ==
    /\ pdf.phase = "rules"
    /\ Len(pdf.todo) > 0
    /\ pdf' = [DrawParagraph(pdf, Head(pdf.todo)) EXCEPT !.todo = Tail(pdf.todo)]
    /\ UNCHANGED <<payments, nextId, lastBuilt, flash, request, contract_template, booking,
                   rendered, signatures, contracts, session>>

\* c.save() and the file written over the booking's earlier one
pdf_save ==
    /\ \/ pdf.phase = "main" /\ Len(pdf.regras_text) = 0
       \/ pdf.phase = "rules"
    /\ Len(pdf.todo) = 0
    /\ pdf' = [pdf EXCEPT !.phase = "saved"]
    /\ contracts' = [contracts EXCEPT ![pdf.booking_id] = pdf.drawn]
    /\ UNCHANGED <<payments, nextId, lastBuilt, flash, request, contract_template, booking,
                   rendered, signatures, session>>

(***************************************************************************)
(* The inputs the requests are drawn from.                                 *)
(***************************************************************************)
GoodDate1 == <<"2", "0", "2", "4", "-", "0", "1", "-", "1", "0">>
GoodDate2 == <<" ", "2", "0", "2", "4", "-", "2", "-", "1">>
BadDate1 == <<"2", "0", "2", "4", "-", "0", "2", "-", "3", "0">>
BadDate2 == <<"1", "0", "/", "0", "1", "/", "2", "0", "2", "4">>

\* "5,5"   "0,0"   "x"   "750"   "7,50 "   "-5"
Amt55 == <<"5", ",", "5">>
AmtZero == <<"0", ",", "0">>
AmtJunk == <<"x">>
Amt750 == <<"7", "5", "0">>
Amt7c50 == <<"7", ",", "5", "0", " ">>
AmtNeg == <<"-", "5">>

IntStr(n) == <<DigitChars[n + 1]>>

Bookings == {1, 2}          \* the Booking rows that exist

\* the deposit fields of the booking form
DepositAmounts == {None, Some(Amt55), Some(AmtZero), Some(AmtJunk), Some(AmtNeg)}
DepositDates == {None, Some(GoodDate1), Some(BadDate1)}

\* installments_count: absent, junk, zero, negative, one, and the count the
\* form has fields for
Counts ==
    {None, Some(<<"x">>), Some(<<"0">>), Some(<<"-", "1">>), Some(IntStr(1)),
     Some(IntStr(MaxInst))}

\* payment_due_i / payment_amount_i / payment_note_i: each field right or
\* wrong; odd and even indices differ in the way a field is wrong (absent
\* or unparseable)
Dues(i) == IF i % 2 = 1 THEN {Some(GoodDate2), None} ELSE {Some(GoodDate1), Some(BadDate2)}
Amounts(i) == IF i % 2 = 1 THEN {Some(Amt7c50), Some(AmtJunk)} ELSE {Some(Amt750), None}
Note(i) == IF i % 2 = 1 THEN Some(<<" ", "n", DigitChars[i + 1]>>) ELSE None

PerIndex(F(_)) ==
    {f \in [1..MaxInst -> UNION {F(i) : i \in 1..MaxInst}] : \A i \in 1..MaxInst : f[i] \in F(i)}

\* request.form of POST /bookings/<id>/edit, payment fields only
Forms ==
    [deposit_amount : DepositAmounts, deposit_date : DepositDates,
     installments_count : Counts,
     payment_due : PerIndex(Dues), payment_amount : PerIndex(Amounts),
     payment_note : {[i \in 1..MaxInst |-> Note(i)]}]

\* a smaller set of forms, for the runs that mix forms and bookings: a
\* deposit; no count, a zero count or installments; the first index without
\* a due date
FewForms ==
    [deposit_amount : {Some(Amt55)}, deposit_date : {Some(GoodDate1)},
     installments_count : {None, Some(<<"0">>), Some(IntStr(MaxInst))},
     payment_due : {[i \in 1..MaxInst |-> IF i = 1 THEN None ELSE Some(GoodDate1)]},
     payment_amount : {[i \in 1..MaxInst |-> Some(Amt750)]},
     payment_note : {[i \in 1..MaxInst |-> Note(i)]}]

\* the form of POST /bookings/<id>/payments/new
AddForms ==
    {[due_date |-> Some(GoodDate2), amount |-> Some(Amt750), note |-> Some(<<"e", "x", "t", "r", "a">>)],
     [due_date |-> None, amount |-> Some(Amt750), note |-> None]}

\* the forms of the concurrent requests: the columns of Booking as stored
\* (no deposit, one installment), another due date or amount on line 1
RaceForms ==
    [deposit_amount : {None}, deposit_date : {None},
     installments_count : {Some(<<"1">>)},
     payment_due : {[i \in 1..MaxInst |-> IF i = 1 THEN d ELSE None] :
                        d \in {Some(GoodDate1), Some(GoodDate2)}},
     payment_amount : {[i \in 1..MaxInst |-> IF i = 1 THEN a ELSE None] :
                        a \in {Some(Amt750), Some(Amt55)}},
     payment_note : {[i \in 1..MaxInst |-> Note(i)]}]

RebuiltRace == [f \in RaceForms |-> NewPayments(1, f)] @@ <<>>

\* NewPayments and AddedPayment, evaluated once per input
Rebuilt == [f \in Forms |-> NewPayments(1, f)] @@ <<>>
RebuiltFew == [b \in Bookings, f \in FewForms |-> NewPayments(b, f)] @@ <<>>
Added == [b \in Bookings, f \in AddForms |-> AddedPayment(b, f)] @@ <<>>

Today == {20240305}         \* date.today()

NoRequest == [op |-> "none", booking_id |-> 0, form |-> <<>>]

\* the value tuple of a row, without its surrogate key
Tuple(p) == <<p.due_date, p.amount, p.status, p.paid_date, p.note>>

\* multiset of value tuples of a set of rows
TupleBag(rows) ==
    [t \in {Tuple(p) : p \in rows} |-> Cardinality({p \in rows : Tuple(p) = t})]

\* the guest of the booking whose contract is rendered
GuestRow ==
    [name |-> <<"Ana Lima">>, cpf |-> <<"123.456.789-00">>, rg |-> <<>>, address |-> <<>>,
     companions |-> <<" ", "B", "i", "a", "\r", "\n", " ", "\r", "C", "a", "i", "o", " ", "\n">>]

\* a Booking row; the nullable numbers are <<>> for NULL
BookingRow(deposit_amount, installments_count, installment_value, installments_due) ==
    [id |-> 1, guest |-> GuestRow, check_in |-> 20240301, check_out |-> 20240308,
     price_total |-> <<350000>>, payment_method |-> <<"p", "i", "x">>,
     deposit_amount |-> deposit_amount, installments_count |-> installments_count,
     installment_value |-> installment_value, installments_due |-> installments_due]

BookingRows ==
    {BookingRow(dep, inst[1], inst[2], due) :
        dep \in {<<>>, <<0>>, <<150000>>},
        inst \in {<<<<>>, <<>>>>, <<<<2>>, <<75050>>>>},
        due \in {<<>>, <<"dia 10 de cada mês">>}}

\* what a template is written with
TplTokens == {"{", "}", "0", "foo", "pagamento", "pagamento_info"}

TemplatesOf(n) == UNION {[1..k -> TplTokens] : k \in 0..n}

\* the posted texts: any short template, and some with white space around
\* longer templates an operator writes: a payment placeholder after an
\* unknown one, a payment placeholder in doubled braces, one on a line of
\* its own
OperatorTemplates ==
    {<<"{", "foo", "}", " ", "{", "pagamento", "}">>,
     <<"{", "{", "pagamento", "}", "}">>,
     <<"Contrato", "\n", "{", "pagamento_info", "}">>}

RawTemplates ==
    TemplatesOf(MaxTplLen) \cup {<<" ">> \o t \o <<"\n">> : t \in TemplatesOf(1)}
        \cup OperatorTemplates

\* the one-line paragraphs that fit on the first page before a line is
\* drawn on the next, and those after which a signature no longer fits
FitParas == (FirstTop - Bottom) \div (LineStep + ParaGap) + 1
SigFit == (FirstTop - (SigNeeded + Bottom)) \div (LineStep + ParaGap) + 1

Clause(i) == <<"Cláusula", " ">> \o IntChars(i)

ClauseLines(k) == Join(<<"\n">>, [i \in 1..k |-> Clause(i)])

\* a paragraph of two wrapped lines
LongClause == Join(<<" ">>, [i \in 1..12 |-> <<"parágrafo">> \o IntChars(i)])

RulesLine == <<"Silêncio", " ", "após", " ", "22h">>

\* how a template goes on to the condominium rules: not at all, on the
\* next line, after an empty line, or naming them inside a sentence
RulesEndings ==
    {<<>>,
     <<"\n">> \o RulesMarker \o <<"\n">> \o RulesLine,
     <<"\n", "\n">> \o RulesMarker \o <<"\n">> \o RulesLine,
     <<" ", "conforme", " ", "as", " ">> \o RulesMarker \o <<" ", "anexas">>}

SignatureEndings ==
    {<<>>, <<"\n">> \o SigLocador \o <<"\n">> \o SigLocatario \o <<"\n", "Testemunhas">>}

ClauseCounts == {1, SigFit - 1, SigFit, FitParas, FitParas + 1, MaxClauses}

\* the contracts an operator writes: clauses, perhaps a long one, perhaps
\* the signature lines, perhaps the rules
LayoutTemplates ==
    {ClauseLines(k) \o long \o sig \o rules :
        k \in ClauseCounts, long \in {<<>>, <<"\n">> \o LongClause},
        sig \in SignatureEndings, rules \in RulesEndings}

ImageFiles == {<<"locador", 0>>, <<"tenant", 1>>}

LedgerInit ==
    /\ payments = {}
    /\ nextId = 1
    /\ request = NoRequest
    /\ flash = "none"
    /\ lastBuilt = [b \in Bookings |-> <<>>]

\* nothing drawn, no file written, no request under way
RestInit ==
    /\ pdf = NoPdf
    /\ contracts = [b \in Bookings |-> <<>>]
    /\ session = [r \in Sessions |-> IdleSession]

Init ==
    /\ LedgerInit
    /\ contract_template = DefaultTemplate
    /\ booking = BookingRow(<<>>, <<>>, <<>>, <<>>)
    /\ rendered = <<>>
    /\ signatures = {}
    /\ RestInit

\* history: what the rebuild of booking b made of form f, and what the
\* rebuild before it made of the same form (none if it had another form)
Remember(b, f) ==
    lastBuilt' = [lastBuilt EXCEPT ![b] =
        <<[form |-> f,
           tuples |-> TupleBag({p \in payments' : p.booking_id = b}),
           prior |-> IF Len(lastBuilt[b]) > 0 /\ lastBuilt[b][1].form = f
                     THEN <<lastBuilt[b][1].tuples>> ELSE <<>>]>>]

\* One booking and every form: the first request on the fresh database
\* submits any form; the form is then submitted again, with toggles in
\* between.
FirstSave ==
    /\ request = NoRequest
    /\ \E f \in Forms : save_payments_from_form(1, f, Rebuilt[f]) /\ Remember(1, f)

SaveAgain ==
    /\ Len(lastBuilt[1]) > 0
    /\ LET f == lastBuilt[1][1].form
       IN  save_payments_from_form(1, f, Rebuilt[f]) /\ Remember(1, f)

ToggleOne ==
    \E id \in 1..MaxId, d \in Today : payment_toggle_paid(id, d) /\ UNCHANGED lastBuilt

\* the surrogate keys of one behaviour are bounded
KeysLeft == nextId' <= MaxId + 1

NextBuild ==
    /\ FirstSave \/ SaveAgain \/ ToggleOne
    /\ KeysLeft
    /\ UNCHANGED <<renderVars, otherVars>>

SpecBuild == Init /\ [][NextBuild]_vars

\* Two bookings and a few forms, in any order.
SaveAny ==
    \E b \in Bookings, f \in FewForms :
        save_payments_from_form(b, f, RebuiltFew[b, f]) /\ Remember(b, f)

AddAny == \E b \in Bookings, f \in AddForms : booking_add_payment(b, f, Added[b, f]) /\ UNCHANGED lastBuilt

ToggleAny ==
    \E id \in 1..MaxId, d \in Today : payment_toggle_paid(id, d) /\ UNCHANGED lastBuilt

NextLedger ==
    /\ SaveAny \/ AddAny \/ ToggleAny
    /\ KeysLeft
    /\ UNCHANGED <<renderVars, otherVars>>

SpecLedger == Init /\ [][NextLedger]_vars

\* The contract of one booking, under the seeded template or the one the
\* operator put in its place.
InitRender ==
    /\ LedgerInit
    /\ contract_template = DefaultTemplate
    /\ booking \in BookingRows
    /\ rendered = <<>>
    /\ signatures = {}
    /\ RestInit

EditTemplate ==
    /\ contract_template = DefaultTemplate
    /\ \E raw \in RawTemplates : settings_contract_template(raw)

RenderAny == \E d \in Today : contract_text(d)

NextRender == EditTemplate \/ RenderAny

SpecRender == InitRender /\ [][NextRender]_vars

\* The contract of a booking whose guest has any short companions text
\* (NULL and the empty text are both the empty sequence), under the seeded
\* template.
CompanionChars == {"A", "b", " ", "\n", "\r"}

CompanionTexts == UNION {[1..k -> CompanionChars] : k \in 0..MaxCompLen}

InitCompanions ==
    /\ LedgerInit
    /\ contract_template = DefaultTemplate
    /\ \E c \in CompanionTexts :
          booking = [BookingRow(<<>>, <<>>, <<>>, <<>>) EXCEPT !.guest.companions = c]
    /\ rendered = <<>>
    /\ signatures = {}
    /\ RestInit

NextCompanions == RenderAny

SpecCompanions == InitCompanions /\ [][NextCompanions]_vars

\* The installment breakdown of booking 1, the ledgers of both bookings
\* being rebuilt, added to and toggled in any order: the template is the
\* one placeholder, the booking has no payment summary, and the answer of
\* the contract route is forgotten at the next request.
EarlyDate == <<"2", "0", "2", "3", "-", "1", "2", "-", "0", "5">>

ParcelasTemplate == <<"{", "parcelas", "}">>

BreakdownAddForms ==
    {[due_date |-> Some(GoodDate2), amount |-> Some(Amt750), note |-> None],
     [due_date |-> Some(EarlyDate), amount |-> Some(Amt55), note |-> None]}

AddedBreakdown == [b \in Bookings, f \in BreakdownAddForms |-> AddedPayment(b, f)] @@ <<>>

InitBreakdown ==
    /\ LedgerInit
    /\ contract_template = DefaultTemplate
    /\ booking = BookingRow(<<>>, <<>>, <<>>, <<>>)
    /\ rendered = <<>>
    /\ signatures = {}
    /\ RestInit

SaveBreakdown ==
    \E b \in Bookings, f \in FewForms : save_payments_from_form(b, f, RebuiltFew[b, f])

AddBreakdown ==
    \E b \in Bookings, f \in BreakdownAddForms : booking_add_payment(b, f, AddedBreakdown[b, f])

\* the rows whose status is toggled here: the first two inserted (the lines
\* of the breakdown show neither status nor paid date)
ToggledKeys == 1..2

ToggleBreakdown == \E id \in ToggledKeys, d \in Today : payment_toggle_paid(id, d)

LedgerBreakdown ==
    /\ SaveBreakdown \/ AddBreakdown \/ ToggleBreakdown
    /\ KeysLeft
    /\ rendered' = <<>>
    /\ UNCHANGED <<lastBuilt, contract_template, booking, otherVars>>

EditBreakdown ==
    /\ contract_template = DefaultTemplate
    /\ settings_contract_template(ParcelasTemplate)

RenderBreakdown ==
    /\ contract_template = ParcelasTemplate
    /\ RenderAny

NextBreakdown == LedgerBreakdown \/ EditBreakdown \/ RenderBreakdown

SpecBreakdown == InitBreakdown /\ [][NextBreakdown]_vars

\* Booking 1, rebuilt once or not at all, and then two edit_booking
\* requests for it at the same time.
SeedSave ==
    /\ request = NoRequest
    /\ \A r \in Sessions : session[r].pc = "idle"
    /\ \E f \in RaceForms : save_payments_from_form(1, f, RebuiltRace[f])
    /\ UNCHANGED <<lastBuilt, session>>

ReadAny == \E r \in Sessions, f \in RaceForms : edit_read(r, 1, f, RebuiltRace[f])

CommitAny == \E r \in Sessions : edit_commit(r)

NextRace ==
    /\ SeedSave \/ ReadAny \/ CommitAny
    /\ KeysLeft
    /\ UNCHANGED <<renderVars, pdfVars>>

SpecRace == Init /\ [][NextRace]_vars

\* The PDF of one booking's contract, for the seeded template or a longer
\* one written in its place, with and without the signature images.
InitPdf ==
    /\ LedgerInit
    /\ contract_template = DefaultTemplate
    /\ booking = BookingRow(<<>>, <<>>, <<>>, <<>>)
    /\ rendered = <<>>
    /\ signatures \in SUBSET ImageFiles
    /\ RestInit

EditLayout ==
    /\ contract_template = DefaultTemplate
    /\ pdf.phase = "idle"
    /\ \E raw \in LayoutTemplates : settings_contract_template(raw)

PdfBegin == \E d \in Today : pdf_begin(d)

NextPdf ==
    \/ EditLayout
    \/ PdfBegin
    \/ pdf_main_paragraph
    \/ pdf_begin_rules
    \/ pdf_rules_paragraph
    \/ pdf_save

SpecPdf == InitPdf /\ [][NextPdf]_vars

(***************************************************************************)
(* The ledger claims.  What a form asks for is restated here from the      *)
(* form's fields, and compared with the rows the operations left.          *)
(***************************************************************************)
Rebuilding == request.op = "save"

\* the fields of the form as the claims read them
AmountOf(o) == ParseFloat(Strip(CommaToDot(OrEmpty(o))))
DateOf(o) == ParseDate(Strip(OrEmpty(o)))
CountOf(form) == ParseInt(Strip(OrEmpty(form.installments_count)))

DepositAsked(form) ==
    /\ AmountOf(form.deposit_amount).ok /\ AmountOf(form.deposit_amount).val # 0
    /\ DateOf(form.deposit_date).ok

IndexAsked(form, i) ==
    /\ DateOf(FieldAt(form.payment_due, i)).ok
    /\ AmountOf(FieldAt(form.payment_amount, i)).ok

IndicesAsked(form) ==
    IF CountOf(form).ok THEN {i \in 1..CountOf(form).val : IndexAsked(form, i)} ELSE {}

DepositEntries(rows) == {p \in rows : p.note = DepositNote}
InstallmentEntries(rows) == {p \in rows : p.note # DepositNote}

Ids(rows) == {p.id : p \in rows}

\* C1: a rebuild of a booking leaves none of the rows the booking had
\* before it, whatever they were and whatever the installment count is; the
\* rows it leaves are new ones, at most one deposit and one per index.
C1_DestructiveReplace ==
    [][request'.op = "save" =>
        LET b == request'.booking_id
            after == {p \in payments' : p.booking_id = b}
            n == CountOf(request'.form)
        IN  /\ Ids(after) \cap Ids(payments) = {}
            /\ \A p \in after : p.id >= nextId
            /\ Cardinality(DepositEntries(after)) <= 1
            /\ Cardinality(InstallmentEntries(after))
                  <= (IF n.ok /\ n.val > 0 THEN n.val ELSE 0)]_vars

\* C1 witness: booking 1 was rebuilt from a form without a count, only rows
\* of booking 1 were ever made, and more rows were made than are left
C1_Witness ==
    /\ Rebuilding /\ request.booking_id = 1
    /\ request.form.installments_count = None
    /\ LedgerOf(2) = {} /\ Len(lastBuilt[2]) = 0
    /\ LedgerOf(1) # {}
    /\ \E p \in LedgerOf(1) : p.id > 2 /\ p.id - 1 \notin Ids(payments)

\* C2: after a rebuild the ledger has one deposit row if the deposit amount
\* parses to a nonzero number and the deposit date parses, and none
\* otherwise, whatever the installment fields are.
C2_DepositIff ==
    Rebuilding =>
        Cardinality(DepositEntries(LedgerOf(request.booking_id)))
            = (IF DepositAsked(request.form) THEN 1 ELSE 0)

\* C2 witness: a comma amount made a deposit row though the form has no count
C2_Witness ==
    /\ Rebuilding
    /\ request.form.deposit_amount = Some(Amt55)
    /\ request.form.installments_count = None
    /\ \E p \in LedgerOf(request.booking_id) : p.note = DepositNote /\ p.amount = 550

\* C3: right after a rebuild the deposit row is paid, with paid date and due
\* date the submitted deposit date, and every other row is pending without
\* a paid date; a row is paid exactly if it is the deposit row.
C3_StatusAfterRebuild ==
    Rebuilding =>
        \A p \in LedgerOf(request.booking_id) :
            /\ p.note = DepositNote =>
                /\ p.status = "pago"
                /\ p.due_date = DateOf(request.form.deposit_date).val
                /\ p.paid_date = p.due_date
            /\ p.note # DepositNote => p.status = "pendente" /\ p.paid_date = NullDate
            /\ p.status \in {"pago", "pendente"}

\* C3 witness: a rebuild left a paid deposit row and a pending installment
C3_Witness ==
    /\ Rebuilding
    /\ \E p, q \in LedgerOf(request.booking_id) :
          /\ p.note = DepositNote /\ p.status = "pago" /\ p.paid_date = 20240110
          /\ q.note # DepositNote /\ q.status = "pendente"

\* C4: with a count n >= 1, every index of 1..n whose due date and amount
\* parse has exactly one row, with that due date, amount and note, and the
\* other indices have none: a wrong index is skipped, the later ones are not.
C4_SkipNotReject ==
    (Rebuilding /\ CountOf(request.form).ok /\ CountOf(request.form).val >= 1) =>
        LET f == request.form
            rows == InstallmentEntries(LedgerOf(request.booking_id))
        IN  /\ Cardinality(rows) = Cardinality(IndicesAsked(f))
            /\ \A i \in IndicesAsked(f) :
                  \E p \in rows :
                      /\ p.due_date = DateOf(FieldAt(f.payment_due, i)).val
                      /\ p.amount = AmountOf(FieldAt(f.payment_amount, i)).val
                      /\ p.note = Strip(OrEmpty(FieldAt(f.payment_note, i)))
            /\ \A p \in rows :
                  \E i \in IndicesAsked(f) :
                      /\ p.due_date = DateOf(FieldAt(f.payment_due, i)).val
                      /\ p.amount = AmountOf(FieldAt(f.payment_amount, i)).val

\* C4 witness: index 1 has no due date, index 2 is right and has its row
C4_Witness ==
    /\ Rebuilding
    /\ CountOf(request.form).val = 2
    /\ request.form.payment_due[1] = None
    /\ IndicesAsked(request.form) = {2}
    /\ \E p \in LedgerOf(request.booking_id) : p.due_date = 20240110 /\ p.amount = 75000

\* C5: a rebuild from the form of the booking's rebuild before it leaves the
\* same multiset of (due date, amount, status, paid date, note), whatever
\* was added or toggled in between.
C5_RebuildIdempotent ==
    Rebuilding =>
        LET b == request.booking_id
        IN  Len(lastBuilt[b][1].prior) > 0 =>
                TupleBag(LedgerOf(b)) = lastBuilt[b][1].prior[1]

\* C5 witness: the same form rebuilt booking 1 twice, installments included
C5_Witness ==
    /\ Rebuilding /\ request.booking_id = 1
    /\ Len(lastBuilt[1][1].prior) > 0
    /\ Cardinality(LedgerOf(1)) >= 2

\* C6: every row of the ledger has an amount above zero.
C6_PositiveAmounts == \A p \in payments : p.amount > 0

\* C7: a row stays in its booking's ledger, with its due date, amount and
\* note, through every step that is not a rebuild of its booking, and the
\* rebuild of its booking removes it.
C7_SurvivesUntilRebuild ==
    [][\A p \in payments :
          IF request'.op = "save" /\ request'.booking_id = p.booking_id
          THEN p.id \notin Ids(payments')
          ELSE \E q \in payments' :
                  /\ q.id = p.id /\ q.booking_id = p.booking_id
                  /\ q.due_date = p.due_date /\ q.amount = p.amount /\ q.note = p.note]_vars

\* C7 witness: an added row of booking 1, toggled to paid, is still there
\* after a rebuild of booking 2
C7_Witness ==
    /\ Rebuilding /\ request.booking_id = 2
    /\ \E p \in LedgerOf(1) :
          /\ p.note = <<"e", "x", "t", "r", "a">>
          /\ p.status = "pago" /\ p.amount = 75000 /\ p.due_date = 20240201

(***************************************************************************)
(* The contract claims.                                                    *)
(***************************************************************************)
HasResult == Len(rendered) = 1

Result == rendered[1]

\* the names between an opening and its closing brace, the opening brace
\* not being the second of a doubled one
NamedRefs(t) ==
    {SubSeq(t, i + 1, j - 1) : <<i, j>> \in
        {ij \in (DOMAIN t) \X (DOMAIN t) :
            /\ ij[1] + 1 < ij[2]
            /\ t[ij[1]] = "{" /\ t[ij[2]] = "}"
            /\ \A k \in (ij[1] + 1)..(ij[2] - 1) : t[k] \notin {"{", "}"}
            /\ ij[1] > 1 => t[ij[1] - 1] # "{"}}

MissingRefs(t) ==
    {n \in NamedRefs(t) : ~IsIndex(n) /\ ~(Len(n) = 1 /\ n[1] \in FieldNames)}

IsPrefix(a, b) == Len(a) <= Len(b) /\ SubSeq(b, 1, Len(a)) = a

Count(sub, text) ==
    Cardinality({i \in 1..(Len(text) - Len(sub) + 1) : SubSeq(text, i, i + Len(sub) - 1) = sub})

References(t, name) == Contains(t, <<"{", name, "}">>)

Paragraph(pay) == <<"\n", "\n", "Pagamento: ">> \o pay \o <<".">>

EndsWith(text, sub) ==
    Len(sub) <= Len(text) /\ SubSeq(text, Len(text) - Len(sub) + 1, Len(text)) = sub

\* C8: when the stored template names a placeholder that is not among the
\* fields, rendering returns normally, and the text is not empty: it is the
\* template as stored, followed by a diagnostic that names a missing
\* placeholder.
C8_MissingPlaceholderDiagnostic ==
    (HasResult /\ MissingRefs(contract_template) # {}) =>
        /\ Result.raised = "none"
        /\ Len(Result.text) > 0
        /\ IsPrefix(contract_template, Result.text)
        /\ \E n \in MissingRefs(contract_template) :
              Contains(SubSeq(Result.text, Len(contract_template) + 1, Len(Result.text)), n)

\* C9: whatever non-empty template is stored, rendering the contract
\* returns a text and raises nothing.
C9_NeverRaises == HasResult => Result.raised = "none"

C11_PaymentNeverDropped ==
    (HasResult /\ Result.raised = "none" /\ HasSummary(payment_summary(booking))) =>
        Contains(Result.text, payment_summary(booking))

(***************************************************************************)
(* The PDF claims.                                                         *)
(***************************************************************************)
\* the paragraph the main loop is at is a signature marker without its image
AtMissingSignature ==
    /\ pdf.phase = "main"
    /\ Len(pdf.todo) > 0
    /\ Strip(Head(pdf.todo)) \in {SigLocador, SigLocatario}
    /\ ImageOf(Strip(Head(pdf.todo)), pdf.booking_id) \notin signatures

\* C12: the step over a signature marker whose image file does not exist
\* leaves the page and the cursor where they were, wherever the cursor is.
C12_MissingImageZeroSpace ==
    [][(AtMissingSignature /\ pdf'.phase = "main" /\ pdf'.todo = Tail(pdf.todo))
          => (pdf'.page = pdf.page /\ pdf'.y = pdf.y)]_vars

\* the strings drawn as text, in the order drawn, marker lines left out
DrawnText(drawn) ==
    LET IsText(d) == d.kind = "text" /\ d.text \notin {"{assinatura_locador}", "{assinatura_locatario}"}
        kept == SelectSeq(drawn, IsText)
    IN  [i \in DOMAIN kept |-> kept[i].text]

\* the wrapped lines of the paragraphs from the i-th on, marker paragraphs
\* left out
RECURSIVE WrappedFrom(_, _)
WrappedFrom(paras, i) ==
    IF i > Len(paras) THEN <<>>
    ELSE (IF Strip(paras[i]) \in {SigLocador, SigLocatario} THEN <<>> ELSE wrap(paras[i]))
            \o WrappedFrom(paras, i + 1)

WrappedForm(text) == WrappedFrom(SplitLines(text), 1)

\* lines that fit on the first page, no paragraph ending among them
LinesPerPage == (FirstTop - Bottom) \div LineStep + 1

\* C13: the text lines of a written contract are the wrapped lines of the
\* paragraphs of the rendered text, in order, none lost, none twice; and a
\* text of more lines than fit on the first page gives more than one page.
C13_PaginationPreservesText ==
    pdf.phase = "saved" =>
        /\ DrawnText(pdf.drawn) = WrappedForm(pdf.full_text)
        /\ Len(WrappedForm(pdf.full_text)) > LinesPerPage => pdf.page > 1

(***************************************************************************)
(* The concurrency claim.                                                  *)
(***************************************************************************)
\* multiset of value tuples of a sequence of rows
RowBag(rows) ==
    [t \in {Tuple(rows[i]) : i \in DOMAIN rows} |->
        Cardinality({i \in DOMAIN rows : Tuple(rows[i]) = t})]

BothDone == \A r \in Sessions : session[r].pc = "done"

\* C14: once both concurrent rebuilds of a booking have committed, its
\* ledger is what the form of the request that committed last derives, in
\* whatever order the two read and committed.
C14_LastWriterWins ==
    BothDone =>
        TupleBag(LedgerOf(request.booking_id))
            = RowBag(NewPayments(request.booking_id, request.form))

(***************************************************************************)
(* The ledger claims, continued.                                           *)
(***************************************************************************)
\* C15: a rebuild, an added entry or a toggle addressed to one booking
\* leaves the rows of every other booking as they were, whatever requests
\* came before.
C15_PerBookingScope ==
    [][\A b \in Bookings :
          b # request'.booking_id =>
              {p \in payments' : p.booking_id = b} = {p \in payments : p.booking_id = b}]_vars

\* C15 witness: a toggle on booking 1 while booking 2 has a deposit and an
\* added entry
C15_Witness ==
    /\ request.op = "toggle" /\ request.booking_id = 1
    /\ \E p, q \in LedgerOf(2) : p.note = DepositNote /\ q.note = <<"e", "x", "t", "r", "a">>

\* C19: every row is 'pendente' or 'pago' and has a paid date exactly when
\* it is 'pago'; a toggle flips the status of one row, clears its paid date
\* on the way to 'pendente' and sets it on the way to 'pago', and changes
\* nothing else.
C19_StatusInvariant ==
    /\ [](\A p \in payments :
             /\ p.status \in {"pendente", "pago"}
             /\ p.paid_date # NullDate <=> p.status = "pago")
    /\ [][request'.op = "toggle" =>
             \E p \in payments, q \in payments' :
                 /\ payments' \ {q} = payments \ {p}
                 /\ q.id = p.id /\ q.booking_id = p.booking_id
                 /\ q.due_date = p.due_date /\ q.amount = p.amount /\ q.note = p.note
                 /\ IF p.status = "pago"
                    THEN q.status = "pendente" /\ q.paid_date = NullDate
                    ELSE q.status = "pago" /\ q.paid_date # NullDate]_vars

\* C19 witness: the deposit row, paid when built, toggled back to pending
C19_Witness ==
    /\ request.op = "toggle"
    /\ \E p \in payments :
          p.note = DepositNote /\ p.status = "pendente" /\ p.paid_date = NullDate

(***************************************************************************)
(* The field claims.                                                       *)
(***************************************************************************)
\* what stands between the token label and the end of its line in a text
\* that has the label
AfterLabel(text, label) ==
    LET i == CHOOSE k \in DOMAIN text : text[k] = label
        ends == {k \in DOMAIN text : k > i /\ text[k] = "\n"} \cup {Len(text) + 1}
        j == CHOOSE k \in ends : \A m \in ends : k <= m
    IN  SubSeq(text, i + 1, j - 1)

IsBreak(c) == c \in {"\n", "\r"}

\* the lines of a text, a line being a longest stretch without a line feed
\* or carriage return: where each starts and ends
LineSpans(s) ==
    {ij \in (DOMAIN s) \X (DOMAIN s) :
        /\ ij[1] <= ij[2]
        /\ \A k \in ij[1]..ij[2] : ~IsBreak(s[k])
        /\ ij[1] = 1 \/ IsBreak(s[ij[1] - 1])
        /\ ij[2] = Len(s) \/ IsBreak(s[ij[2] + 1])}

\* a line without the blanks at its ends
Trimmed(s, ij) ==
    LET nb == {k \in ij[1]..ij[2] : s[k] \notin {" ", "\t"}}
    IN  IF nb = {} THEN <<>>
        ELSE SubSeq(s, CHOOSE k \in nb : \A m \in nb : k <= m,
                       CHOOSE k \in nb : \A m \in nb : m <= k)

\* the trimmed lines that are not empty, in the order of the text
NamesOf(s) ==
    LET spans == {ij \in LineSpans(s) : Trimmed(s, ij) # <<>>}
        nth(k) == CHOOSE ij \in spans : Cardinality({x \in spans : x[1] < ij[1]}) = k - 1
    IN  [k \in 1..Cardinality(spans) |-> Trimmed(s, nth(k))]

\* C16: the companions line of the rendered contract is the trimmed
\* non-empty lines of the guest's companions text joined with ", ", in
\* their order, whatever mix of line endings and blanks the text has, and
\* "-" when no line is left.
C16_CompanionsField ==
    (HasResult /\ Result.raised = "none") =>
        AfterLabel(Result.text, "Acompanhantes: ")
            = IF Len(NamesOf(booking.guest.companions)) = 0 THEN <<"-">>
              ELSE Join(<<",", " ">>, NamesOf(booking.guest.companions))

\* C16 witness: two names, a carriage return between them
C16_Witness ==
    /\ HasResult
    /\ booking.guest.companions = <<"A", " ", "\r", "b">>
    /\ AfterLabel(Result.text, "Acompanhantes: ") = <<"A", ",", " ", "b">>

\* a stored number that is set and not zero
IsSet(v) == v # <<>> /\ v[1] # 0

\* the parts of the summary of a booking, as the sentence names them
SummaryParts(b) ==
    (IF IsSet(b.deposit_amount)
     THEN <<<<"Sinal de ">> \o br_currency(b.deposit_amount)>> ELSE <<>>)
    \o (IF IsSet(b.installments_count) /\ IsSet(b.installment_value)
        THEN <<IntChars(b.installments_count[1]) \o <<" parcelas de ">>
                  \o br_currency(b.installment_value)>>
        ELSE <<>>)

\* C17: the payment summary of the booking a contract is rendered for is
\* its parts joined with " e " and then the due-dates clause when the
\* legacy field is not empty; when the booking has no part the summary is
\* exactly "-" whatever the legacy field holds, and the render takes the
\* booking as having no payment summary.
C17_SummaryShape ==
    HasResult =>
        IF Len(SummaryParts(booking)) > 0
        THEN payment_summary(booking)
                = Join(<<" e ">>, SummaryParts(booking))
                    \o (IF Len(booking.installments_due) > 0
                        THEN <<", com vencimentos em ">> \o booking.installments_due
                        ELSE <<>>)
        ELSE /\ payment_summary(booking) = <<"-">>
             /\ ~HasSummary(payment_summary(booking))

\* the lines of the breakdown in a rendered text
BreakdownLines == IF Result.text = <<>> THEN <<>> ELSE SplitLines(Result.text)

\* what a line says of an entry: its due date and its amount
LineBody(p) == br_date(p.due_date) \o <<" - ">> \o br_currency(<<p.amount>>)

\* line i without its number
BodyOfLine(i) ==
    SubSeq(BreakdownLines[i], Len(IntChars(i)) + 2, Len(BreakdownLines[i]))

\* the due date line i shows
DueOfLine(i) ==
    CHOOSE d \in {p.due_date : p \in LedgerOf(booking.id)} :
        IsPrefix(br_date(d), BodyOfLine(i))

\* C18: the installment breakdown of a booking has one line for each entry
\* of the ledger of that booking and none for entries of other bookings,
\* deposit and added entries included; line i is numbered i, the due
\* dates of the lines ascend, and the breakdown is the empty text when the
\* booking has no entry.
C18_BreakdownLines ==
    (HasResult /\ Result.raised = "none" /\ contract_template = ParcelasTemplate) =>
        LET rows == LedgerOf(booking.id)
            lines == BreakdownLines
        IN  /\ rows = {} => Result.text = <<>>
            /\ Len(lines) = Cardinality(rows)
            /\ \A i \in DOMAIN lines :
                  IsPrefix(IntChars(i) \o <<"ª parcela: ">>, lines[i])
            /\ \A p \in rows :
                  Cardinality({q \in rows : LineBody(q) = LineBody(p)})
                      = Cardinality({i \in DOMAIN lines : BodyOfLine(i) = LineBody(p)})
            /\ \A i, j \in DOMAIN lines : i < j => DueOfLine(i) <= DueOfLine(j)

\* C18 witness: three entries of booking 1, the deposit among them and one
\* added after it with an earlier due date, and an entry of booking 2
C18_Witness ==
    /\ HasResult
    /\ contract_template = ParcelasTemplate
    /\ Len(BreakdownLines) = 3
    /\ LedgerOf(2) # {}
    /\ \E p, q \in LedgerOf(1) :
          p.id < q.id /\ q.due_date < p.due_date /\ p.note = DepositNote

====
